---- MODULE Spec2Model ----
(***************************************************************************)
(* A model of sync.py ("Sync in 3 Clicks"): a Streamlit script that takes  *)
(* two uploaded archives (Velodyne point clouds, camera images), extracts  *)
(* them into two fixed staging directories, locates the frame files,       *)
(* pairs them by basename (synchronize_data) and offers a preview and an   *)
(* export of the pairs.                                                    *)
(*                                                                         *)
(* Strings are sequences of one-character strings, so that basename,       *)
(* splitext, endswith, lower, the substring test and the ordering used by  *)
(* sorted() are computed the way Python computes them.                     *)
(***************************************************************************)
EXTENDS Integers, Sequences, FiniteSets, TLC

VARIABLES
    uploaded_lidar_zip,   \* value of the first st.file_uploader: NoFile or an archive
    uploaded_image_zip,   \* value of the second st.file_uploader
    lidar_disk,           \* paths of the files present under lidar_temp
    image_disk,           \* paths of the files present under image_temp
    lidar_files,          \* module-level list lidar_files
    image_files,          \* module-level list image_files
    synced_data,          \* module-level list synced_data
    pc,                   \* position of the current script run
    clicked,              \* the st.button that triggered the current run
    export_format,        \* value of the export format selectbox
    ui,                   \* elements the current run has put on the page
    export_buffer,        \* what the Export handler has written to its buffer
    download,             \* data handed to st.download_button in this run
    raised                \* where the current run has raised an exception

vars == << uploaded_lidar_zip, uploaded_image_zip, lidar_disk, image_disk,
           lidar_files, image_files, synced_data, pc, clicked, export_format,
           ui, export_buffer, download, raised >>

-----------------------------------------------------------------------------
(* Bounds of the model *)

\* longest input list given to synchronize_data in SyncSpec
MaxFiles == 2

\* longest list of pairs given to the raw export in ExportSpec
MaxPairs == 2

\* largest number of entries of an uploaded archive in Spec
MaxEntries == 2

-----------------------------------------------------------------------------
(* Strings *)

\* the characters used by the model, in the order of their code points
\* (Python compares str values code point by code point)
AsciiOrder ==
    << ".", "/", "0", "1", "2", "G", "N", "P", "_", "a", "d", "e", "g", "i",
       "j", "l", "m", "n", "o", "p", "r", "s", "t", "v", "x", "y", "z" >>

Ord(c) == CHOOSE k \in 1..Len(AsciiOrder) : AsciiOrder[k] = c

\* str.lower() on one character
LowerChar(c) ==
    CASE c = "G" -> "g"
      [] c = "N" -> "n"
      [] c = "P" -> "p"
      [] OTHER -> c

Lower(s) == [k \in 1..Len(s) |-> LowerChar(s[k])]

MinOf(S) == CHOOSE x \in S : \A y \in S : x <= y
MaxOf(S) == CHOOSE x \in S : \A y \in S : y <= x

\* a < b for two str values
StrLess(a, b) ==
    LET n == IF Len(a) < Len(b) THEN Len(a) ELSE Len(b)
        D == {k \in 1..n : a[k] # b[k]}
    IN  IF D = {} THEN Len(a) < Len(b)
        ELSE Ord(a[MinOf(D)]) < Ord(b[MinOf(D)])

\* sorted(S) for a collection S of distinct str values
RECURSIVE Sorted(_)
Sorted(S) ==
    IF S = {} THEN << >>
    ELSE LET m == CHOOSE x \in S : \A y \in S \ {x} : StrLess(x, y)
         IN  << m >> \o Sorted(S \ {m})

\* sub in s
Contains(s, sub) ==
    \E k \in 0..(Len(s) - Len(sub)) : SubSeq(s, k + 1, k + Len(sub)) = sub

\* s.endswith(suffix)
EndsWith(s, suffix) ==
    /\ Len(suffix) <= Len(s)
    /\ SubSeq(s, Len(s) - Len(suffix) + 1, Len(s)) = suffix

\* s.startswith(prefix)
StartsWith(s, prefix) ==
    /\ Len(prefix) <= Len(s)
    /\ SubSeq(s, 1, Len(prefix)) = prefix

\* s.rfind(c) + 1: the position of the last c in s, 0 when there is none
RFind(s, c) ==
    LET P == {k \in 1..Len(s) : s[k] = c}
    IN  IF P = {} THEN 0 ELSE MaxOf(P)

\* os.path.basename(p)
Basename(p) == SubSeq(p, RFind(p, "/") + 1, Len(p))

\* os.path.dirname(p), for the paths os.walk yields (root of a file)
Dirname(p) == SubSeq(p, 1, RFind(p, "/") - 1)

\* os.path.join(root, file)
Join(root, file) == root \o << "/" >> \o file

\* os.path.splitext(p)[0]: the extension starts at the last dot that follows
\* the last separator, unless only dots lie between the separator and it
SplitextRoot(p) ==
    LET sepIndex == RFind(p, "/")
        dotIndex == RFind(p, ".")
    IN  IF /\ dotIndex > sepIndex
           /\ \E k \in (sepIndex + 1)..(dotIndex - 1) : p[k] # "."
        THEN SubSeq(p, 1, dotIndex - 1)
        ELSE p

\* the key of the dict comprehensions of synchronize_data
FrameId(f) == SplitextRoot(Basename(f))

-----------------------------------------------------------------------------
(* Values shared by the specifications *)

\* a file uploader without a file (None)
NoFile == [kind |-> "none", entries |-> {}]

\* no st.download_button was rendered
NoDownload == [file_name |-> "none", data |-> << >>]

Range(q) == {q[k] : k \in 1..Len(q)}

\* the lists of at most n elements of S
ListsOf(S, n) == UNION {[1..k -> S] : k \in 0..n}

\* the state of a session before anything was uploaded or run
FreshSession ==
    /\ uploaded_lidar_zip = NoFile
    /\ uploaded_image_zip = NoFile
    /\ lidar_disk = {}
    /\ image_disk = {}
    /\ clicked = "none"
    /\ export_format = ".zip"
    /\ ui = {}
    /\ export_buffer = << >>
    /\ download = NoDownload
    /\ raised = {}

-----------------------------------------------------------------------------
(* Names used by the script *)

lidar_temp_dir == << "l", "i", "d", "a", "r", "_", "t", "e", "m", "p" >>
image_temp_dir == << "i", "m", "a", "g", "e", "_", "t", "e", "m", "p" >>

S_data_zip == << "d", "a", "t", "a", ".", "z", "i", "p" >>
S_velodyne_points ==
    << "v", "e", "l", "o", "d", "y", "n", "e", "_", "p", "o", "i", "n", "t", "s" >>
S_image_02 == << "i", "m", "a", "g", "e", "_", "0", "2" >>
S_data == << "d", "a", "t", "a" >>
S_txt == << ".", "t", "x", "t" >>
S_png == << ".", "p", "n", "g" >>
S_jpg == << ".", "j", "p", "g" >>
S_jpeg == << ".", "j", "p", "e", "g" >>
S_sentinel == << ".", "_" >>

-----------------------------------------------------------------------------
(* unzip_to_folder *)

\* the files under out_dir once unzip_to_folder has returned or raised:
\* data.zip is written first; ZipFile() raises on bytes that are no archive;
\* extractall adds every entry and removes nothing
unzip_to_folder(uploaded_file, out_dir, disk) ==
    LET written == disk \cup {Join(out_dir, S_data_zip)}
    IN  IF uploaded_file.kind = "zip"
        THEN written \cup {Join(out_dir, e) : e \in uploaded_file.entries}
        ELSE written

unzip_raises(uploaded_file) == uploaded_file.kind # "zip"

-----------------------------------------------------------------------------
(* find_velodyne_txt_files, find_image_files *)

\* the files os.walk(base_dir) yields, as os.path.join(root, file)
Walk(base_dir, disk) == {p \in disk : StartsWith(p, base_dir \o << "/" >>)}

find_velodyne_txt_files(base_dir, disk) ==
    Sorted({p \in Walk(base_dir, disk) :
               /\ Contains(Dirname(p), S_velodyne_points)
               /\ Contains(Dirname(p), S_data)
               /\ EndsWith(Basename(p), S_txt)
               /\ ~StartsWith(Basename(p), S_sentinel)})

\* find_image_files without the test of the file extension
find_image_files_any_extension(base_dir, disk) ==
    Sorted({p \in Walk(base_dir, disk) :
               /\ Contains(Dirname(p), S_image_02)
               /\ Contains(Dirname(p), S_data)
               /\ ~StartsWith(Basename(p), S_sentinel)})

find_image_files(base_dir, disk) ==
    Sorted({p \in Walk(base_dir, disk) :
               /\ Contains(Dirname(p), S_image_02)
               /\ Contains(Dirname(p), S_data)
               /\ \E ext \in {S_png, S_jpg, S_jpeg} :
                      EndsWith(Lower(Basename(p)), ext)
               /\ ~StartsWith(Basename(p), S_sentinel)})

-----------------------------------------------------------------------------
(* synchronize_data *)

\* {key(f): f for f in files}, after the first n elements of files
RECURSIVE DictOf(_, _)
DictOf(files, n) ==
    IF n = 0 THEN << >>
    ELSE LET d == DictOf(files, n - 1)
             key == FrameId(files[n])
         IN  [k \in (DOMAIN d) \cup {key} |->
                 IF k = key THEN files[n] ELSE d[k]]

\* a dict that keeps the first value of a key
RECURSIVE DictFirstOf(_, _)
DictFirstOf(files, n) ==
    IF n = 0 THEN << >>
    ELSE LET d == DictFirstOf(files, n - 1)
             key == FrameId(files[n])
         IN  [k \in (DOMAIN d) \cup {key} |->
                 IF k \in DOMAIN d THEN d[k] ELSE files[n]]

base_names_first_wins(files) == DictFirstOf(files, Len(files))

base_names(files) == DictOf(files, Len(files))

\* the common keys in descending order
common_keys_descending(lidar_base_names, image_base_names) ==
    LET up == Sorted((DOMAIN lidar_base_names) \cap (DOMAIN image_base_names))
    IN  [n \in 1..Len(up) |-> up[Len(up) + 1 - n]]

\* sorted(set(lidar_base_names.keys()) & set(image_base_names.keys()))
common_keys(lidar_base_names, image_base_names) ==
    Sorted((DOMAIN lidar_base_names) \cap (DOMAIN image_base_names))

\* pairs the two lists position by position
synchronize_by_position(l_files, i_files) ==
    LET n == IF Len(l_files) < Len(i_files) THEN Len(l_files) ELSE Len(i_files)
    IN  [k \in 1..n |-> << l_files[k], i_files[k] >>]

\* the common keys in the order of their first occurrence in files
RECURSIVE KeysInListOrder(_, _, _)
KeysInListOrder(files, n, keys) ==
    IF n = 0 THEN << >>
    ELSE LET before == KeysInListOrder(files, n - 1, keys)
             key == FrameId(files[n])
         IN  IF key \in keys /\ \A k \in 1..Len(before) : before[k] # key
             THEN Append(before, key)
             ELSE before

\* iterates the common keys in the order of the point-cloud list
synchronize_in_list_order(l_files, i_files) ==
    LET lidar_base_names == base_names(l_files)
        image_base_names == base_names(i_files)
        keys == KeysInListOrder(l_files, Len(l_files), DOMAIN image_base_names)
    IN  [n \in 1..Len(keys) |->
            << lidar_base_names[keys[n]], image_base_names[keys[n]] >>]

synchronize_data(l_files, i_files) ==
    LET lidar_base_names == base_names(l_files)
        image_base_names == base_names(i_files)
        keys == common_keys(lidar_base_names, image_base_names)
    IN  [n \in 1..Len(keys) |->
            << lidar_base_names[keys[n]], image_base_names[keys[n]] >>]

-----------------------------------------------------------------------------
(* The Export button handler *)

\* a write that replaces the entries of the same name
zip_write_replacing(zf, filename, arcname) ==
    Append(SelectSeq(zf, LAMBDA e : e.name # arcname),
           [name |-> arcname, content |-> filename])

\* zf.write(filename, arcname): zipfile appends an entry for every write and
\* keeps the entries written before, whatever their names
ZipWrite(zf, filename, arcname) ==
    Append(zf, [name |-> arcname, content |-> filename])

\* the entries of zip_buffer after the first n pairs
RECURSIVE RawWrites(_, _)
RawWrites(pairs, n) ==
    IF n = 0 THEN << >>
    ELSE ZipWrite(ZipWrite(RawWrites(pairs, n - 1),
                           pairs[n][1], Basename(pairs[n][1])),
                  pairs[n][2], Basename(pairs[n][2]))

\* str(i) for the ordinal of a pair
DecimalDigits == << "0", "1", "2", "3", "4", "5", "6", "7", "8", "9" >>
Str(i) == << DecimalDigits[i + 1] >>

\* f"pair_{i}/lidar", f"pair_{i}/image"
H5Key(i, table) == << "p", "a", "i", "r", "_" >> \o Str(i) \o << "/" >> \o table

\* the tables of h5_buffer after the first n pairs (enumerate counts from 0)
RECURSIVE H5Puts(_, _)
H5Puts(pairs, n) ==
    IF n = 0 THEN << >>
    ELSE H5Puts(pairs, n - 1) \o
         << [name |-> H5Key(n - 1, << "l", "i", "d", "a", "r" >>),
             content |-> pairs[n][1]],
            [name |-> H5Key(n - 1, << "i", "m", "a", "g", "e" >>),
             content |-> pairs[n][2]] >>

ExportWrites(pairs, fmt) ==
    IF fmt = ".zip" THEN RawWrites(pairs, Len(pairs)) ELSE H5Puts(pairs, Len(pairs))

ExportFileName(fmt) == IF fmt = ".zip" THEN "synced_data.zip" ELSE "synced_data.h5"

\* a handler that offers what was written although a write has failed
export_handler_offers_partial(pairs, fmt, written, ok) ==
    [ buffer |-> SubSeq(ExportWrites(pairs, fmt), 1, written),
      download |-> [file_name |-> ExportFileName(fmt),
                    data |-> SubSeq(ExportWrites(pairs, fmt), 1, written)],
      shown |-> IF ok THEN {"download_button"} ELSE {"download_button", "error_export"},
      raised |-> IF ok THEN {} ELSE {"export"} ]

\* the try block of the Export handler, with `written` writes done when it is
\* left and ok telling whether it was left without an exception
export_handler(pairs, fmt, written, ok) ==
    IF ok
    THEN [ buffer |-> SubSeq(ExportWrites(pairs, fmt), 1, written),
           download |-> [file_name |-> ExportFileName(fmt),
                         data |-> SubSeq(ExportWrites(pairs, fmt), 1, written)],
           shown |-> {"download_button"},
           raised |-> {} ]
    ELSE [ buffer |-> SubSeq(ExportWrites(pairs, fmt), 1, written),
           download |-> NoDownload,
           shown |-> {"error_export"},
           raised |-> {"export"} ]

-----------------------------------------------------------------------------
(* Spec: a session of the script; every user event reruns the script *)

\* entries of the archives a user uploads as Velodyne data
LidarEntries ==
    { S_velodyne_points \o << "/" >> \o S_data \o << "/", "1" >> \o S_txt,
      S_velodyne_points \o << "/" >> \o S_data \o << "/", "2" >> \o S_txt,
      << "x", "/" >> \o S_velodyne_points \o << "/" >> \o S_data \o << "/", "1" >> \o S_txt,
      S_velodyne_points \o << "/", "1" >> \o S_txt }

\* entries of the archives a user uploads as image data
ImageEntries ==
    { S_image_02 \o << "/" >> \o S_data \o << "/", "1" >> \o S_png,
      S_image_02 \o << "/" >> \o S_data \o << "/", "2" >> \o S_jpg,
      S_image_02 \o << "/" >> \o S_data \o << "/", "1", ".", "P", "N", "G" >>,
      S_image_02 \o << "/" >> \o S_data \o << "/", "1" >> \o S_txt }

\* the uploads: archives of at most MaxEntries entries, and a file that is
\* named .zip but is no archive
ArchivesOf(entries) ==
    {[kind |-> "zip", entries |-> E] :
        E \in {X \in SUBSET entries : Cardinality(X) <= MaxEntries}}
    \cup {[kind |-> "bad", entries |-> {}]}

\* lines 102-104 and a page without elements: the start of a script run
StartRun(button) ==
    /\ pc \in {"done", "aborted"}
    /\ lidar_files' = << >>
    /\ image_files' = << >>
    /\ synced_data' = << >>
    /\ ui' = {}
    /\ export_buffer' = << >>
    /\ download' = NoDownload
    /\ raised' = {}
    /\ clicked' = button
    /\ pc' = "lidar"
    /\ UNCHANGED << lidar_disk, image_disk >>

Init ==
    /\ FreshSession
    /\ lidar_files = << >>
    /\ image_files = << >>
    /\ synced_data = << >>
    /\ pc = "lidar"

\* the user puts a file into, or replaces the file of, the first uploader
UploadLidar ==
    \E a \in ArchivesOf(LidarEntries) :
        /\ StartRun("none")
        /\ uploaded_lidar_zip' = a
        /\ UNCHANGED << uploaded_image_zip, export_format >>

RemoveLidar ==
    /\ uploaded_lidar_zip # NoFile
    /\ StartRun("none")
    /\ uploaded_lidar_zip' = NoFile
    /\ UNCHANGED << uploaded_image_zip, export_format >>

UploadImage ==
    \E a \in ArchivesOf(ImageEntries) :
        /\ StartRun("none")
        /\ uploaded_image_zip' = a
        /\ UNCHANGED << uploaded_lidar_zip, export_format >>

RemoveImage ==
    /\ uploaded_image_zip # NoFile
    /\ StartRun("none")
    /\ uploaded_image_zip' = NoFile
    /\ UNCHANGED << uploaded_lidar_zip, export_format >>

\* the user picks the other export format
SelectFormat ==
    /\ "export_section" \in ui
    /\ StartRun("none")
    /\ export_format' = IF export_format = ".zip" THEN ".h5" ELSE ".zip"
    /\ UNCHANGED << uploaded_lidar_zip, uploaded_image_zip >>

ClickVisualize ==
    /\ "view_section" \in ui
    /\ StartRun("visualize")
    /\ UNCHANGED << uploaded_lidar_zip, uploaded_image_zip, export_format >>

ClickExport ==
    /\ "export_section" \in ui
    /\ StartRun("export")
    /\ UNCHANGED << uploaded_lidar_zip, uploaded_image_zip, export_format >>

\* lines 106-108; an exception of unzip_to_folder is caught nowhere and ends
\* the run
ExtractLidar ==
    /\ pc = "lidar"
    /\ IF uploaded_lidar_zip # NoFile
       THEN /\ lidar_disk' = unzip_to_folder(uploaded_lidar_zip, lidar_temp_dir, lidar_disk)
            /\ IF unzip_raises(uploaded_lidar_zip)
               THEN /\ pc' = "aborted"
                    /\ raised' = raised \cup {"unzip"}
                    /\ UNCHANGED lidar_files
               ELSE /\ pc' = "image"
                    /\ lidar_files' = find_velodyne_txt_files(lidar_temp_dir, lidar_disk')
                    /\ UNCHANGED raised
       ELSE /\ pc' = "image"
            /\ UNCHANGED << lidar_disk, lidar_files, raised >>
    /\ UNCHANGED << uploaded_lidar_zip, uploaded_image_zip, image_disk, image_files,
                    synced_data, clicked, export_format, ui, export_buffer,
                    download >>

\* lines 110-112
ExtractImage ==
    /\ pc = "image"
    /\ IF uploaded_image_zip # NoFile
       THEN /\ image_disk' = unzip_to_folder(uploaded_image_zip, image_temp_dir, image_disk)
            /\ IF unzip_raises(uploaded_image_zip)
               THEN /\ pc' = "aborted"
                    /\ raised' = raised \cup {"unzip"}
                    /\ UNCHANGED image_files
               ELSE /\ pc' = "sync"
                    /\ image_files' = find_image_files(image_temp_dir, image_disk')
                    /\ UNCHANGED raised
       ELSE /\ pc' = "sync"
            /\ UNCHANGED << image_disk, image_files, raised >>
    /\ UNCHANGED << uploaded_lidar_zip, uploaded_image_zip, lidar_disk, lidar_files,
                    synced_data, clicked, export_format, ui, export_buffer,
                    download >>

\* the message of lines 114-118
upload_status(l_zip, i_zip, l_files, i_files) ==
    IF l_files # << >> /\ i_files # << >> THEN {"success"}
    ELSE IF l_zip # NoFile \/ i_zip # NoFile THEN {"warning"}
    ELSE {}

\* lines 114-118
Synchronize ==
    /\ pc = "sync"
    /\ synced_data' = IF lidar_files # << >> /\ image_files # << >>
                      THEN synchronize_data(lidar_files, image_files)
                      ELSE synced_data
    /\ ui' = ui \cup upload_status(uploaded_lidar_zip, uploaded_image_zip,
                                   lidar_files, image_files)
    /\ pc' = "view"
    /\ UNCHANGED << uploaded_lidar_zip, uploaded_image_zip, lidar_disk, image_disk,
                    lidar_files, image_files, clicked, export_format,
                    export_buffer, download, raised >>

\* lines 123-145; loading or drawing the selected pair may raise, and the
\* handler catches it
ViewSection ==
    /\ pc = "view"
    /\ IF synced_data # << >>
       THEN IF clicked = "visualize"
            THEN \E ok \in BOOLEAN :
                    /\ ui' = ui \cup {"view_section"} \cup
                             (IF ok THEN {"visualized"} ELSE {"error_visualize"})
                    /\ raised' = raised \cup (IF ok THEN {} ELSE {"visualize"})
            ELSE /\ ui' = ui \cup {"view_section"}
                 /\ UNCHANGED raised
       ELSE /\ ui' = ui \cup {"info"}
            /\ UNCHANGED raised
    /\ pc' = "export"
    /\ UNCHANGED << uploaded_lidar_zip, uploaded_image_zip, lidar_disk, image_disk,
                    lidar_files, image_files, synced_data, clicked, export_format,
                    export_buffer, download >>

\* lines 150-181; a write may raise after any number of writes
ExportSection ==
    /\ pc = "export"
    /\ IF clicked = "export"
       THEN IF synced_data = << >>
            THEN /\ ui' = ui \cup {"export_section", "error_no_data"}
                 /\ UNCHANGED << export_buffer, download, raised >>
            ELSE \E written \in 0..Len(ExportWrites(synced_data, export_format)),
                    ok \in BOOLEAN :
                    /\ ok => written = Len(ExportWrites(synced_data, export_format))
                    /\ LET h == export_handler(synced_data, export_format, written, ok)
                       IN  /\ export_buffer' = h.buffer
                           /\ download' = h.download
                           /\ ui' = ui \cup {"export_section"} \cup h.shown
                           /\ raised' = raised \cup h.raised
       ELSE /\ ui' = ui \cup {"export_section"}
            /\ UNCHANGED << export_buffer, download, raised >>
    /\ pc' = "done"
    /\ UNCHANGED << uploaded_lidar_zip, uploaded_image_zip, lidar_disk, image_disk,
                    lidar_files, image_files, synced_data, clicked, export_format >>

Next ==
    \/ UploadLidar
    \/ RemoveLidar
    \/ UploadImage
    \/ RemoveImage
    \/ SelectFormat
    \/ ClickVisualize
    \/ ClickExport
    \/ ExtractLidar
    \/ ExtractImage
    \/ Synchronize
    \/ ViewSection
    \/ ExportSection

Spec == Init /\ [][Next]_vars

-----------------------------------------------------------------------------
(* SyncSpec: synchronize_data applied to arbitrary lists of paths *)

\* paths with equal and different basenames, directories and extensions
SyncPaths ==
    { << "a", "/", "1", ".", "t", "x", "t" >>,
      << "d", "/", "1", ".", "t", "x", "t" >>,
      << "a", "/", "2", ".", "t", "x", "t" >>,
      << "a", "/", "1", ".", "p", "n", "g" >>,
      << "a", "/", "2", ".", "j", "p", "g" >>,
      << "a", "/", "1", ".", "2", ".", "p", "n", "g" >> }

SyncInit ==
    /\ FreshSession
    /\ lidar_files \in ListsOf(SyncPaths, MaxFiles)
    /\ image_files \in ListsOf(SyncPaths, MaxFiles)
    /\ synced_data = << >>
    /\ pc = "call"

SyncCall ==
    /\ pc = "call"
    /\ synced_data' = synchronize_data(lidar_files, image_files)
    /\ pc' = "return"
    /\ UNCHANGED << uploaded_lidar_zip, uploaded_image_zip, lidar_disk,
                    image_disk, lidar_files, image_files, clicked,
                    export_format, ui, export_buffer, download, raised >>

SyncNext == SyncCall

SyncSpec == SyncInit /\ [][SyncNext]_vars

-----------------------------------------------------------------------------
(* ExportSpec: the Export handler applied to arbitrary lists of pairs *)

\* paths with equal and different basenames
ExportPaths ==
    { << "a", "/", "1", ".", "t", "x", "t" >>,
      << "d", "/", "1", ".", "t", "x", "t" >>,
      << "a", "/", "1", ".", "p", "n", "g" >>,
      << "d", "/", "2", ".", "p", "n", "g" >> }

ExportInit ==
    /\ uploaded_lidar_zip = NoFile
    /\ uploaded_image_zip = NoFile
    /\ lidar_disk = {}
    /\ image_disk = {}
    /\ lidar_files = << >>
    /\ image_files = << >>
    /\ synced_data \in ListsOf(ExportPaths \X ExportPaths, MaxPairs)
    /\ clicked = "export"
    /\ export_format = ".zip"
    /\ ui = {}
    /\ export_buffer = << >>
    /\ download = NoDownload
    /\ raised = {}
    /\ pc = "export"

ExportNext == ExportSection

ExportSpec == ExportInit /\ [][ExportNext]_vars

-----------------------------------------------------------------------------
(* Claims about synchronize_data *)

KeysOf(files) == {FrameId(files[k]) : k \in 1..Len(files)}

UniqueKeys(files) ==
    \A j, k \in 1..Len(files) : FrameId(files[j]) = FrameId(files[k]) => j = k

\* the rearrangements of a list
PermsOf(q) ==
    {[k \in 1..Len(q) |-> q[f[k]]] : f \in Permutations(1..Len(q))}

LastIndex(files, key) == MaxOf({k \in 1..Len(files) : FrameId(files[k]) = key})

\* C1: the result has as many pairs as there are Frame Identifiers common to
\* both lists, the identifiers of consecutive pairs are strictly ascending,
\* and the result is empty when an input is empty or the key sets are disjoint
C1_LengthAndOrder ==
    pc = "return" =>
        /\ Len(synced_data) = Cardinality(KeysOf(lidar_files) \cap KeysOf(image_files))
        /\ \A n \in 1..(Len(synced_data) - 1) :
               StrLess(FrameId(synced_data[n][1]), FrameId(synced_data[n + 1][1]))
        /\ (\/ lidar_files = << >>
            \/ image_files = << >>
            \/ KeysOf(lidar_files) \cap KeysOf(image_files) = {})
           => synced_data = << >>

\* two pairs came out of lists that name the larger identifier first
C1_Witness ==
    /\ pc = "return"
    /\ Len(synced_data) = 2
    /\ Len(lidar_files) = 2
    /\ StrLess(FrameId(lidar_files[2]), FrameId(lidar_files[1]))

\* C2: every returned pair takes its first path from the point-cloud list and
\* its second from the image list, and both have the same Frame Identifier
C2_PairsMatch ==
    pc = "return" =>
        \A n \in 1..Len(synced_data) :
            /\ synced_data[n][1] \in Range(lidar_files)
            /\ synced_data[n][2] \in Range(image_files)
            /\ FrameId(synced_data[n][1]) = FrameId(synced_data[n][2])

\* a pair came out although the lists also hold paths of different identifiers
C2_Witness ==
    /\ pc = "return"
    /\ synced_data # << >>
    /\ \E p \in Range(lidar_files), i \in Range(image_files) :
           FrameId(p) # FrameId(i)

\* C3: when no list names a Frame Identifier twice, rearranging either list
\* leaves the returned list of pairs unchanged
C3_OrderIndependent ==
    (pc = "return" /\ UniqueKeys(lidar_files) /\ UniqueKeys(image_files)) =>
        \A p \in PermsOf(lidar_files), q \in PermsOf(image_files) :
            synchronize_data(p, q) = synced_data

\* two pairs came out of lists that are not in ascending order
C3_Witness ==
    /\ pc = "return"
    /\ UniqueKeys(lidar_files) /\ UniqueKeys(image_files)
    /\ Len(synced_data) = 2
    /\ StrLess(image_files[2], image_files[1])

\* C9: of several paths of one list with the same Frame Identifier, the pair
\* of that identifier holds the last one, and the earlier ones are in no pair
C9_LastWins ==
    pc = "return" =>
        \A n \in 1..Len(synced_data) :
            LET key == FrameId(synced_data[n][1])
                l_last == lidar_files[LastIndex(lidar_files, key)]
                i_last == image_files[LastIndex(image_files, key)]
            IN  /\ synced_data[n] = << l_last, i_last >>
                /\ \A k \in 1..Len(lidar_files) :
                       (FrameId(lidar_files[k]) = key /\ lidar_files[k] # l_last)
                       => \A m \in 1..Len(synced_data) :
                              synced_data[m][1] # lidar_files[k]
                /\ \A k \in 1..Len(image_files) :
                       (FrameId(image_files[k]) = key /\ image_files[k] # i_last)
                       => \A m \in 1..Len(synced_data) :
                              synced_data[m][2] # image_files[k]

\* a list named one identifier with two different paths and it was paired
C9_Witness ==
    /\ pc = "return"
    /\ synced_data # << >>
    /\ \E j, k \in 1..Len(lidar_files) :
           /\ j < k
           /\ lidar_files[j] # lidar_files[k]
           /\ FrameId(lidar_files[j]) = FrameId(lidar_files[k])
           /\ FrameId(lidar_files[k]) \in KeysOf(image_files)

-----------------------------------------------------------------------------
(* Claims about the session *)

\* the paths under out_dir that the uploaded archive holds
CurrentFiles(uploaded_file, out_dir) ==
    {Join(out_dir, e) : e \in uploaded_file.entries}

\* C4: every pair of the Synchronized Set references entries of the two
\* archives uploaded now, never a file an earlier upload left on disk
C4_OnlyCurrentArchives ==
    pc = "done" =>
        \A n \in 1..Len(synced_data) :
            /\ synced_data[n][1] \in CurrentFiles(uploaded_lidar_zip, lidar_temp_dir)
            /\ synced_data[n][2] \in CurrentFiles(uploaded_image_zip, image_temp_dir)

\* C5: a download is offered only with everything written and no failure, and
\* a failed export shows the error and offers no download
C5_NoPartialDownload ==
    /\ download # NoDownload =>
          /\ "export" \notin raised
          /\ download.data = ExportWrites(synced_data, export_format)
    /\ "download_button" \in ui => download # NoDownload
    /\ "export" \in raised =>
          /\ download = NoDownload
          /\ "download_button" \notin ui
          /\ "error_export" \in ui

\* an export failed with some of its writes done
C5_Witness ==
    /\ pc = "done"
    /\ "export" \in raised
    /\ export_buffer # << >>
    /\ Len(export_buffer) < Len(ExportWrites(synced_data, export_format))

\* the message an action reports when it fails
ErrorMessage(site) ==
    CASE site = "unzip" -> "error_unzip"
      [] site = "visualize" -> "error_visualize"
      [] site = "export" -> "error_export"

\* C6: every action catches and reports its own failure, and the run still
\* reaches the status, view and export sections
C6_NoFailureEndsTheRun ==
    /\ pc # "aborted"
    /\ pc = "done" =>
          /\ "export_section" \in ui
          /\ \A site \in raised : ErrorMessage(site) \in ui

ExactlyOneUploaded ==
    (uploaded_lidar_zip = NoFile) # (uploaded_image_zip = NoFile)

\* C7: without any archive only the informational state is signalled, and
\* the 'upload both' warning is signalled exactly when one archive is
\* uploaded and the other is missing
C7_WarningIffOneUpload ==
    pc = "done" =>
        /\ (uploaded_lidar_zip = NoFile /\ uploaded_image_zip = NoFile) =>
              ("info" \in ui /\ "warning" \notin ui /\ "success" \notin ui)
        /\ "warning" \in ui <=> ExactlyOneUploaded

\* C10: the raw archive built from the located and synchronized files has
\* pairwise distinct names and two entries for every pair, the first named
\* .txt and the second .png, .jpg or .jpeg in any case
C10_NoCollisionInSession ==
    download.file_name = "synced_data.zip" =>
        /\ \A j, k \in 1..Len(download.data) :
               download.data[j].name = download.data[k].name => j = k
        /\ Len(download.data) = 2 * Len(synced_data)
        /\ \A n \in 1..Len(synced_data) :
               /\ EndsWith(download.data[2 * n - 1].name, S_txt)
               /\ \E ext \in {S_png, S_jpg, S_jpeg} :
                      EndsWith(Lower(download.data[2 * n].name), ext)

\* a raw archive of two pairs was offered while a list of files held two
\* paths of one Frame Identifier
C10_Witness ==
    /\ download.file_name = "synced_data.zip"
    /\ Len(synced_data) = 2
    /\ ~UniqueKeys(lidar_files)
    /\ ~UniqueKeys(image_files)

-----------------------------------------------------------------------------
(* Claims about the raw export *)

====
